---- MODULE Spec2Model ----
(***************************************************************************)
(* The troll "Done" control of the todo demo app: the interaction state    *)
(* machine of useTrollBehavior (click counting, hover escape, three-stage  *)
(* confirmation), the TrollDoneButton component that binds it to UI events *)
(* and to the owner's onComplete callback, and the TrollButtonProvider     *)
(* that records which sibling control is the displaced one.                *)
(*                                                                         *)
(* Lengths are pixels, rotation is degrees, Math.random() is a draw in     *)
(* hundredths, and scale is an IEEE-754 double kept exactly (see Dbl).     *)
(***************************************************************************)
EXTENDS Integers, Sequences, FiniteSets, TLC

(* ------------------------------ bounds --------------------------------- *)
\* clicks accepted per control before the model stops clicking
MaxClicks == 10
\* hover escapes per control before the model stops hovering
MaxHovers == 5
\* largest required-clicks threshold the parameterised specifications try
MaxThreshold == 3
\* onComplete invocations per control before the owner stops re-rendering
MaxCalls == 2
\* clicks and hover escapes per control in the list of sibling controls
MaxListClicks == 2
MaxListHovers == 3
\* callbacks the delete dialog invokes before the harness stops
MaxDialogCalls == 10
\* todos added to one store (ids issued by uuidv4)
MaxAdds == 2
\* writes to localStorage that throw
MaxWriteFailures == 1
\* clicks on one row's delete button
MaxDeleteClicks == 2

(* --------------------------- program constants ------------------------- *)
TROLL_MESSAGES == <<"Are you SURE?", "Really?", "But what if you're wrong?">>
REQUIRED_CLICKS == 1
ROTATION_INCREMENT == 15
HOVER_ESCAPE_MIN == 80
HOVER_ESCAPE_MAX == 120
MAX_ESCAPES == 4
TIRED_ESCAPE_MIN == 15
TIRED_ESCAPE_MAX == 25

\* the value of a `string | null` that is null
NULL == "null"
\* the todo ids of the sibling controls
Controls == {"todo-1", "todo-2"}
\* the control used where a single control or hook instance is exercised
Solo == "todo-1"
\* identities of the functions an owner can pass as onComplete: the memoized
\* handleComplete of TodoItem, and two distinct spies of a test harness
HANDLE_COMPLETE == "handleComplete"
OnCompleteFns == {HANDLE_COMPLETE, "spy-1", "spy-2"}
\* Math.random() lies in [0, 1): the draws tried, in hundredths
RandomDraws == {0, 99}

VARIABLES
    troll,            \* useTrollBehavior: the TrollState of each control
    isComplete,       \* useTrollBehavior: the isComplete state of each control
    closure,          \* the isComplete value the current handleClick/handleHover closed over
    threshold,        \* the required-clicks threshold in force (REQUIRED_CLICKS in the code)
    activeButtonId,   \* TrollButtonProvider: the displaced control, or NULL
    onCompleteProp,   \* TrollDoneButton props: identity of onComplete
    isCompletedProp,  \* TrollDoneButton props: isCompleted (todo.completed in the app)
    effectDeps,       \* [isComplete, onComplete] the completion effect last ran with
    completeCalls,    \* observed: number of times the owner's onComplete was invoked
    confirmed,        \* observed: messages confirmed in order in the current sequence
    seqDone,          \* observed: messages 1..N were confirmed in order since the last reset
    gateBase,         \* observed: clickCount at the last cancel (0 after construction/reset)
    pristine,         \* observed: only handleClick has been called since construction
    lastHovered,      \* observed: the control whose button was hovered last, or NULL
    provided,         \* a TrollButtonProvider encloses the controls
    mounted,          \* the TrollDoneButton of each todo has rendered
    renderError,      \* the Error a render threw, or NULL
    lastOp,           \* observed: the hook operation called last and the state it found
    todos,            \* useTodos: the list of todos
    storage,          \* localStorage: the value under STORAGE_KEY
    writeOk,          \* observed: the last localStorage.setItem did not throw
    writeFailures,    \* observed: the number of localStorage.setItem calls that threw
    uuids,            \* the number of ids uuidv4() has issued
    lastStoreOp,      \* observed: the store operation called last
    deleteCalls,      \* observed: number of onDelete(todo.id) calls per todo
    deleteOpen,       \* DeleteConfirmationDialog props: open
    callOrder         \* observed: the callbacks the delete dialog invoked, in order

hookVars == <<troll, isComplete, closure, confirmed, seqDone, gateBase, pristine>>
ownerVars == <<onCompleteProp, isCompletedProp, effectDeps, completeCalls>>
listVars == <<activeButtonId, lastHovered>>
mountVars == <<provided, mounted, renderError>>
storeVars == <<todos, storage, writeOk, writeFailures, uuids, lastStoreOp>>
deleteVars == <<deleteCalls, deleteOpen, callOrder>>
vars == <<troll, isComplete, closure, threshold, activeButtonId, onCompleteProp,
          isCompletedProp, effectDeps, completeCalls, confirmed, seqDone, gateBase,
          pristine, lastHovered, provided, mounted, renderError, lastOp,
          todos, storage, writeOk, writeFailures, uuids, lastStoreOp, deleteCalls, deleteOpen, callOrder>>

(* ------------------- JavaScript numbers (doubles) ---------------------- *)
\* A double x in [0.0625, 2) is kept exactly as [tenths |-> t, dev |-> d]:
\* x = t/10 + d * u with u = 2^-56 / 10, so that x / u = t * 2^56 + d is an
\* integer. The doubles of a binade [2^e, 2^(e+1)) are the multiples of its
\* ulp, 2^(e-52): 160 u in [1, 2), 80 u in [0.5, 1), 40 u in [0.25, 0.5),
\* 20 u and 10 u below. Since 2^56 = 256 (mod 320), x / u = 256 t + d
\* (mod 320), which is all that rounding to nearest, ties to even, needs.
Dbl(t, d) == [tenths |-> t, dev |-> d]

\* x < y for doubles (|dev| is far below 2^56)
dblLess(x, y) ==
    x.tenths < y.tenths \/ (x.tenths = y.tenths /\ x.dev < y.dev)

\* the ulp, in units of u, of the binade the real t/10 + d u lies in
ulpOf(t, d) ==
    IF t >= 10 THEN 160
    ELSE IF t > 5 \/ (t = 5 /\ d >= 0) THEN 80
    ELSE IF t >= 3 THEN 40
    ELSE IF t = 2 THEN 20
    ELSE 10

\* the exact real t/10 + d u rounded to the nearest double, ties to even
dblRound(t, d) ==
    LET ulp == ulpOf(t, d)
        r == (256 * t + d + 320 * 1000) % 320
        rem == r % ulp
        downIsEven == ((r - rem) % (2 * ulp)) = 0
    IN  IF rem = 0 THEN Dbl(t, d)
        ELSE IF 2 * rem < ulp \/ (2 * rem = ulp /\ downIsEven)
             THEN Dbl(t, d - rem)
             ELSE Dbl(t, d + (ulp - rem))

\* the double a decimal literal t/10 denotes
dblLiteral(t) == dblRound(t, 0)

\* x - y in double arithmetic
dblSub(x, y) == dblRound(x.tenths - y.tenths, x.dev - y.dev)

\* Math.max(x, y)
dblMax(x, y) == IF dblLess(x, y) THEN y ELSE x

(* ------------------------- useTrollBehavior ---------------------------- *)
SCALE_DECREMENT == dblLiteral(1)
MIN_SCALE == dblLiteral(5)

Max(a, b) == IF a >= b THEN a ELSE b

initialState ==
    [clickCount |-> 0, rotation |-> 0, scale |-> dblLiteral(10), dialogStage |-> 0,
     hoverEscapeOffset |-> [x |-> 0, y |-> 0], escapeDirection |-> 1, escapeCount |-> 0]

\* the state resetTroll sets
resetState ==
    [clickCount |-> 0, rotation |-> 0, scale |-> dblLiteral(10), dialogStage |-> 0,
     hoverEscapeOffset |-> [x |-> 0, y |-> 0], escapeDirection |-> 1, escapeCount |-> 0]

\* a click that shrinks without a floor
clampScale_noFloor(x) == x

\* Math.max(MIN_SCALE, ...) of handleClick
clampScale(x) == dblMax(MIN_SCALE, x)

\* an escape that tires one hover late
generateEscapeOffset_tiresLate(currentDirection, escapeCount, rnd) ==
    LET isTired == escapeCount > MAX_ESCAPES
        minDist == IF isTired THEN TIRED_ESCAPE_MIN ELSE HOVER_ESCAPE_MIN
        maxDist == IF isTired THEN TIRED_ESCAPE_MAX ELSE HOVER_ESCAPE_MAX
        distance == minDist + (rnd * (maxDist - minDist)) \div 100
        newDirection == currentDirection * (-1)
    IN  [x |-> newDirection * distance, y |-> 0, newDirection |-> newDirection]

\* generateEscapeOffset, with Math.random() given as rnd hundredths
generateEscapeOffset(currentDirection, escapeCount, rnd) ==
    LET isTired == escapeCount >= MAX_ESCAPES
        minDist == IF isTired THEN TIRED_ESCAPE_MIN ELSE HOVER_ESCAPE_MIN
        maxDist == IF isTired THEN TIRED_ESCAPE_MAX ELSE HOVER_ESCAPE_MAX
        distance == minDist + (rnd * (maxDist - minDist)) \div 100
        newDirection == currentDirection * (-1)
    IN  [x |-> newDirection * distance, y |-> 0, newDirection |-> newDirection]

\* a click that opens the dialog only on the click that reaches the threshold
clickOpensDialog_onlyAtThreshold(newClickCount, dialogStage, required) ==
    newClickCount = required /\ dialogStage = 0

\* a click that shows the first message whatever the dialog stage
clickOpensDialog_restarts(newClickCount, dialogStage, required) ==
    newClickCount >= required

\* the condition under which a click starts the dialog progression
clickOpensDialog(newClickCount, dialogStage, required) ==
    newClickCount >= required /\ dialogStage = 0

\* a click that does not turn the button when it opens the dialog
clickUpdater_noTurnOnOpen(prev, required) ==
    LET newClickCount == prev.clickCount + 1
        newRotation == prev.rotation + ROTATION_INCREMENT
        newScale == clampScale(dblSub(prev.scale, SCALE_DECREMENT))
    IN  IF clickOpensDialog(newClickCount, prev.dialogStage, required)
        THEN [prev EXCEPT !.clickCount = newClickCount, !.scale = newScale,
                          !.dialogStage = 1]
        ELSE [prev EXCEPT !.clickCount = newClickCount, !.rotation = newRotation,
                          !.scale = newScale]

\* the updater handleClick passes to setState
clickUpdater(prev, required) ==
    LET newClickCount == prev.clickCount + 1
        newRotation == prev.rotation + ROTATION_INCREMENT
        newScale == clampScale(dblSub(prev.scale, SCALE_DECREMENT))
    IN  IF clickOpensDialog(newClickCount, prev.dialogStage, required)
        THEN [prev EXCEPT !.clickCount = newClickCount, !.rotation = newRotation,
                          !.scale = newScale, !.dialogStage = 1]
        ELSE [prev EXCEPT !.clickCount = newClickCount, !.rotation = newRotation,
                          !.scale = newScale]

\* a hover that also counts as a click
hoverUpdater_countsClick(prev, rnd) ==
    LET escape == generateEscapeOffset(prev.escapeDirection, prev.escapeCount, rnd)
    IN  [prev EXCEPT !.hoverEscapeOffset = [x |-> escape.x, y |-> escape.y],
                     !.escapeDirection = escape.newDirection,
                     !.escapeCount = prev.escapeCount + 1,
                     !.clickCount = prev.clickCount + 1]

\* the updater handleHover passes to setState
hoverUpdater(prev, rnd) ==
    LET escape == generateEscapeOffset(prev.escapeDirection, prev.escapeCount, rnd)
    IN  [prev EXCEPT !.hoverEscapeOffset = [x |-> escape.x, y |-> escape.y],
                     !.escapeDirection = escape.newDirection,
                     !.escapeCount = prev.escapeCount + 1]

\* a confirmDialog that would complete one confirm late
confirmCompletes_late(newDialogStage) == newDialogStage > Len(TROLL_MESSAGES) + 1

\* a confirmDialog that completes one confirm early
confirmCompletes_early(newDialogStage) == newDialogStage >= Len(TROLL_MESSAGES)

\* confirmDialog: whether the confirm that leads to newDialogStage is the final one
confirmCompletes(newDialogStage) == newDialogStage > Len(TROLL_MESSAGES)

\* a confirmDialog that skips the second message
confirmUpdater_skipsSecond(prev) ==
    LET newDialogStage == IF prev.dialogStage = 1 THEN 3 ELSE prev.dialogStage + 1
    IN  IF confirmCompletes(newDialogStage)
        THEN [prev EXCEPT !.dialogStage = 0]
        ELSE [prev EXCEPT !.dialogStage = newDialogStage]

\* a confirmDialog whose final confirm does not return to stage 0
confirmUpdater_noWrap(prev) == [prev EXCEPT !.dialogStage = prev.dialogStage + 1]

\* a confirmDialog whose final confirm also forgets the clicks
confirmUpdater_forgetsClicks(prev) ==
    LET newDialogStage == prev.dialogStage + 1
    IN  IF confirmCompletes(newDialogStage)
        THEN [prev EXCEPT !.dialogStage = 0, !.clickCount = 0]
        ELSE [prev EXCEPT !.dialogStage = newDialogStage]

\* the updater confirmDialog passes to setState
confirmUpdater(prev) ==
    LET newDialogStage == prev.dialogStage + 1
    IN  IF confirmCompletes(newDialogStage)
        THEN [prev EXCEPT !.dialogStage = 0]
        ELSE [prev EXCEPT !.dialogStage = newDialogStage]

\* a cancelDialog that also forgets the clicks
cancelUpdater_forgetsClicks(prev) == [prev EXCEPT !.dialogStage = 0, !.clickCount = 0]

\* the updater cancelDialog passes to setState
cancelUpdater(prev) == [prev EXCEPT !.dialogStage = 0]

\* the updater resetHoverOffset passes to setState
resetHoverUpdater(prev) ==
    [prev EXCEPT !.hoverEscapeOffset = [x |-> 0, y |-> 0],
                 !.escapeDirection = 1, !.escapeCount = 0]

\* the derived currentMessage of a TrollState
currentMessage(state) ==
    IF state.dialogStage > 0 /\ state.dialogStage <= Len(TROLL_MESSAGES)
    THEN TROLL_MESSAGES[state.dialogStage] ELSE NULL

\* The hook operations: each sets the hook's state and re-renders, so that the
\* next handler closes over the committed isComplete.
handleClick(c) ==
    IF closure[c]
    THEN UNCHANGED hookVars
    ELSE /\ troll[c].clickCount < MaxClicks
         /\ troll' = [troll EXCEPT ![c] = clickUpdater(troll[c], threshold)]
         /\ UNCHANGED <<isComplete, closure, confirmed, seqDone, gateBase, pristine>>

handleHover(c) ==
    IF closure[c]
    THEN UNCHANGED hookVars
    ELSE /\ troll[c].escapeCount < MaxHovers
         /\ \E rnd \in RandomDraws :
                troll' = [troll EXCEPT ![c] = hoverUpdater(troll[c], rnd)]
         /\ pristine' = [pristine EXCEPT ![c] = FALSE]
         /\ UNCHANGED <<isComplete, closure, confirmed, seqDone, gateBase>>

\* the call of confirmDialog itself: its updater is applied to the state, the
\* handlers of the render it was called in are still the current ones
confirmDialogCall(c) ==
    LET stage == troll[c].dialogStage
        completes == confirmCompletes(stage + 1)
        count == IF stage = 0 THEN 0
                 ELSE IF confirmed[c] = stage - 1 THEN stage ELSE 0
    IN  /\ troll' = [troll EXCEPT ![c] = confirmUpdater(troll[c])]
        /\ isComplete' = [isComplete EXCEPT ![c] = isComplete[c] \/ completes]
        /\ confirmed' = [confirmed EXCEPT ![c] = count]
        /\ seqDone' = [seqDone EXCEPT ![c] = seqDone[c] \/ count = Len(TROLL_MESSAGES)]
        /\ pristine' = [pristine EXCEPT ![c] = FALSE]
        /\ UNCHANGED gateBase

\* useCallback(..., [isComplete]): the render after a call hands out handlers
\* that close over the committed isComplete
useCallback(c) == closure' = [closure EXCEPT ![c] = isComplete'[c]]

confirmDialog(c) == confirmDialogCall(c) /\ useCallback(c)

\* a cancelDialog whose dialog stage is one value shared by every control
cancelDialog_shared(c) ==
    /\ troll' = [d \in Controls |-> cancelUpdater(troll[d])]
    /\ confirmed' = [confirmed EXCEPT ![c] = 0]
    /\ gateBase' = [gateBase EXCEPT ![c] = troll[c].clickCount]
    /\ pristine' = [pristine EXCEPT ![c] = FALSE]
    /\ UNCHANGED <<isComplete, closure, seqDone>>

cancelDialog(c) ==
    /\ troll' = [troll EXCEPT ![c] = cancelUpdater(troll[c])]
    /\ confirmed' = [confirmed EXCEPT ![c] = 0]
    /\ gateBase' = [gateBase EXCEPT ![c] = troll[c].clickCount]
    /\ pristine' = [pristine EXCEPT ![c] = FALSE]
    /\ UNCHANGED <<isComplete, closure, seqDone>>

\* a resetTroll that resets the TrollState but not isComplete
resetTroll_keepsComplete(c) ==
    /\ troll' = [troll EXCEPT ![c] = resetState]
    /\ confirmed' = [confirmed EXCEPT ![c] = 0]
    /\ seqDone' = [seqDone EXCEPT ![c] = FALSE]
    /\ gateBase' = [gateBase EXCEPT ![c] = 0]
    /\ pristine' = [pristine EXCEPT ![c] = FALSE]
    /\ UNCHANGED <<isComplete, closure>>

resetTroll(c) ==
    /\ troll' = [troll EXCEPT ![c] = resetState]
    /\ isComplete' = [isComplete EXCEPT ![c] = FALSE]
    /\ closure' = [closure EXCEPT ![c] = FALSE]
    /\ confirmed' = [confirmed EXCEPT ![c] = 0]
    /\ seqDone' = [seqDone EXCEPT ![c] = FALSE]
    /\ gateBase' = [gateBase EXCEPT ![c] = 0]
    /\ pristine' = [pristine EXCEPT ![c] = FALSE]

resetHoverOffset(c) ==
    /\ troll' = [troll EXCEPT ![c] = resetHoverUpdater(troll[c])]
    /\ pristine' = [pristine EXCEPT ![c] = FALSE]
    /\ UNCHANGED <<isComplete, closure, confirmed, seqDone, gateBase>>

(* ------------------- the hook on its own (renderHook) ------------------ *)
\* the state of freshly constructed controls, whether or not they can render
InitProgram(required, onComplete) ==
    /\ troll = [c \in Controls |-> initialState]
    /\ isComplete = [c \in Controls |-> FALSE]
    /\ closure = [c \in Controls |-> FALSE]
    /\ threshold = required
    /\ activeButtonId = NULL
    /\ onCompleteProp = [c \in Controls |-> onComplete]
    /\ isCompletedProp = [c \in Controls |-> FALSE]
    /\ effectDeps = [c \in Controls |-> [isComplete |-> FALSE, onComplete |-> onComplete]]
    /\ completeCalls = [c \in Controls |-> 0]
    /\ confirmed = [c \in Controls |-> 0]
    /\ seqDone = [c \in Controls |-> FALSE]
    /\ gateBase = [c \in Controls |-> 0]
    /\ pristine = [c \in Controls |-> TRUE]
    /\ lastHovered = NULL
    /\ lastOp = [op |-> NULL, isComplete |-> FALSE, dialogStage |-> 0]

\* no todo store is in use: nothing stored, nothing listed
NoStore ==
    /\ todos = <<>>
    /\ storage = [kind |-> "null", items |-> <<>>]
    /\ writeOk = TRUE
    /\ writeFailures = 0
    /\ uuids = 0
    /\ lastStoreOp = NULL

\* no delete button has been clicked and no delete dialog is shown
NoDelete ==
    /\ deleteCalls = [c \in Controls |-> 0]
    /\ deleteOpen = FALSE
    /\ callOrder = <<>>

\* controls that have rendered inside a TrollButtonProvider
InitWith(required, onComplete) ==
    /\ InitProgram(required, onComplete)
    /\ NoStore
    /\ NoDelete
    /\ provided = TRUE
    /\ mounted = [c \in Controls |-> TRUE]
    /\ renderError = NULL

Init == InitWith(REQUIRED_CLICKS, "spy-1")

notHook == <<threshold, activeButtonId, onCompleteProp, isCompletedProp, effectDeps,
             completeCalls, lastHovered, mountVars, storeVars, deleteVars>>

\* the harness notes the operation it calls and the state it calls it in
called(op) ==
    lastOp' = [op |-> op, isComplete |-> isComplete[Solo],
               dialogStage |-> troll[Solo].dialogStage]

HandleClick == handleClick(Solo) /\ called("handleClick") /\ UNCHANGED notHook
HandleHover == handleHover(Solo) /\ called("handleHover") /\ UNCHANGED notHook
ConfirmDialog == confirmDialog(Solo) /\ called("confirmDialog") /\ UNCHANGED notHook
CancelDialog == cancelDialog(Solo) /\ called("cancelDialog") /\ UNCHANGED notHook
ResetTroll == resetTroll(Solo) /\ called("resetTroll") /\ UNCHANGED notHook
ResetHoverOffset ==
    resetHoverOffset(Solo) /\ called("resetHoverOffset") /\ UNCHANGED notHook

Next ==
    \/ HandleClick
    \/ HandleHover
    \/ ConfirmDialog
    \/ CancelDialog
    \/ ResetTroll
    \/ ResetHoverOffset

Spec == Init /\ [][Next]_vars

(* ------------- the hook called several times in one batch -------------- *)
\* Calls made in one act() or one event handler all use the handlers of the
\* last render: React applies their updaters in call order and renders once,
\* after the batch.
BatchConfirm ==
    /\ confirmDialogCall(Solo)
    /\ called("confirmDialog")
    /\ UNCHANGED <<closure, notHook>>

\* the render that ends a batch
BatchRender ==
    /\ closure # isComplete
    /\ UNCHANGED <<troll, isComplete, confirmed, seqDone, gateBase, pristine>>
    /\ useCallback(Solo)
    /\ UNCHANGED <<lastOp, notHook>>

NextBatch ==
    \/ HandleClick
    \/ HandleHover
    \/ BatchConfirm
    \/ CancelDialog
    \/ BatchRender

SpecBatch == Init /\ [][NextBatch]_vars

(* ----------------------- TrollButtonProvider --------------------------- *)
\* a provider that keeps the first control that became active
setActiveButton_keepsFirst(id) ==
    activeButtonId' = IF activeButtonId = NULL THEN id ELSE activeButtonId

setActiveButton(id) == activeButtonId' = id

isActiveButton(id) == activeButtonId = id

(* -------------------------- TrollDoneButton ---------------------------- *)
\* a control that renders whatever its isCompleted prop says
rendered_ignoresCompleted(c) == mounted[c]

\* the component returns null when the owner says the todo is completed
rendered(c) == mounted[c] /\ ~isCompletedProp[c]

\* the ConfirmationDialog is rendered by the control and open on a message
isOpen(c) == rendered(c) /\ currentMessage(troll[c]) # NULL

\* a transform that ignores which control is the displaced one
transformStyle_ungated(c) == troll[c].hoverEscapeOffset.x

\* the translateX of transformStyle, in pixels
transformStyle(c) == IF isActiveButton(c) THEN troll[c].hoverEscapeOffset.x ELSE 0

\* the offset the control is drawn at (nothing is drawn for a completed todo)
renderedOffset(c) == IF rendered(c) THEN transformStyle(c) ELSE 0

\* a completion effect with no dependency array: it runs after every render
effectRuns_everyRender(deps, prevDeps) == TRUE

\* useEffect(..., [isComplete, onComplete]) runs when a dependency changed
effectRuns(deps, prevDeps) == deps # prevDeps

\* The commit of a render of control c whose hook reports isComplete = complete
\* and whose owner passes onComplete = fn and isCompleted = done: the completion
\* effect runs if its dependencies changed and invokes fn when complete. The
\* handleComplete of TodoItem calls completeTodo(todo.id), after which the item
\* re-renders the control with isCompleted = true.
Commit(c, complete, fn, done) ==
    LET deps == [isComplete |-> complete, onComplete |-> fn]
        invoked == effectRuns(deps, effectDeps[c]) /\ complete
    IN  /\ effectDeps' = [effectDeps EXCEPT ![c] = deps]
        /\ onCompleteProp' = [onCompleteProp EXCEPT ![c] = fn]
        /\ completeCalls' = [completeCalls EXCEPT
                                ![c] = IF invoked THEN @ + 1 ELSE @]
        /\ isCompletedProp' = [isCompletedProp EXCEPT
                                ![c] = IF invoked /\ fn = HANDLE_COMPLETE THEN TRUE ELSE done]

\* a render of control c with the props it already has
Rerender(c) == Commit(c, isComplete'[c], onCompleteProp[c], isCompletedProp[c])

\* onClick of the button
ButtonClick(c) ==
    /\ rendered(c)
    /\ handleClick(c)
    /\ Rerender(c)
    /\ UNCHANGED <<threshold, activeButtonId, lastHovered, mountVars, lastOp, storeVars, deleteVars>>

\* onMouseEnter of the button: handleButtonHover
ButtonHover(c) ==
    /\ rendered(c)
    /\ setActiveButton(c)
    /\ handleHover(c)
    /\ lastHovered' = c
    /\ Rerender(c)
    /\ UNCHANGED <<threshold, mountVars, lastOp, storeVars, deleteVars>>

\* onConfirm of the dialog
DialogConfirm(c) ==
    /\ isOpen(c)
    /\ confirmDialog(c)
    /\ Rerender(c)
    /\ UNCHANGED <<threshold, activeButtonId, lastHovered, mountVars, lastOp, storeVars, deleteVars>>

\* onCancel of the dialog (the Cancel button, or the dialog being dismissed)
DialogCancel(c) ==
    /\ isOpen(c)
    /\ cancelDialog(c)
    /\ Rerender(c)
    /\ UNCHANGED <<threshold, activeButtonId, lastHovered, mountVars, lastOp, storeVars, deleteVars>>

\* a resetPosition that also gives up being the displaced control
resetPosition_clearsActive(c) ==
    /\ mounted[c]
    /\ resetHoverOffset(c)
    /\ Rerender(c)
    /\ activeButtonId' = NULL
    /\ UNCHANGED <<threshold, lastHovered, mountVars, lastOp, storeVars, deleteVars>>

\* the resetPosition of the control's ref handle
resetPosition(c) ==
    /\ mounted[c]
    /\ resetHoverOffset(c)
    /\ Rerender(c)
    /\ UNCHANGED <<threshold, activeButtonId, lastHovered, mountVars, lastOp, storeVars, deleteVars>>

\* the owner renders the control again with props of its choice
OwnerRerender(c, fn, done) ==
    /\ mounted[c]
    /\ completeCalls[c] < MaxCalls
    /\ Commit(c, isComplete[c], fn, done)
    /\ UNCHANGED <<hookVars, threshold, activeButtonId, lastHovered, mountVars, lastOp, storeVars, deleteVars>>

(* ------------- one control under a harness that owns its props --------- *)
InitControl == \E required \in 1..MaxThreshold : InitWith(required, "spy-1")

ControlClick == ButtonClick(Solo)
ControlHover == ButtonHover(Solo)
ControlConfirm == DialogConfirm(Solo)
ControlCancel == DialogCancel(Solo)
ControlResetPosition == resetPosition(Solo)
ControlOwnerRerender ==
    \E fn \in OnCompleteFns \ {HANDLE_COMPLETE}, done \in BOOLEAN :
        OwnerRerender(Solo, fn, done)

NextControl ==
    \/ ControlClick
    \/ ControlHover
    \/ ControlConfirm
    \/ ControlCancel
    \/ ControlResetPosition
    \/ ControlOwnerRerender

SpecControl == InitControl /\ [][NextControl]_vars

(* ------------- one control rendered with or without a provider --------- *)
\* the message of the Error useTrollButtonContext throws
MISSING_PROVIDER == "useTrollButtonContext must be used within a TrollButtonProvider"

\* the outcome of a useTrollButtonContext() that throws
THROWS == "throws"

\* a useTrollButtonContext that hands out whatever useContext returned
useTrollButtonContext_unchecked == "context"

\* useTrollButtonContext(): the context value, or a throw when useContext
\* returned undefined because no provider is in scope
useTrollButtonContext == IF provided THEN "context" ELSE THROWS

\* the first render of the TrollDoneButton of todo c: useTrollBehavior() builds
\* the initial state, then useTrollButtonContext() either hands out the
\* provider's functions or throws, which aborts the render
Mount(c) ==
    /\ ~mounted[c]
    /\ IF useTrollButtonContext = THROWS
       THEN renderError' = MISSING_PROVIDER /\ UNCHANGED mounted
       ELSE mounted' = [mounted EXCEPT ![c] = TRUE] /\ UNCHANGED renderError
    /\ UNCHANGED <<hookVars, ownerVars, listVars, threshold, provided, lastOp,
                   storeVars, deleteVars>>

InitMount ==
    /\ InitProgram(REQUIRED_CLICKS, "spy-1")
    /\ NoStore
    /\ NoDelete
    /\ provided \in BOOLEAN
    /\ mounted = [c \in Controls |-> FALSE]
    /\ renderError = NULL

ControlMount == Mount(Solo)

NextMount ==
    \/ ControlMount
    \/ ControlClick
    \/ ControlHover
    \/ ControlConfirm
    \/ ControlCancel
    \/ ControlResetPosition
    \/ ControlOwnerRerender

SpecMount == InitMount /\ [][NextMount]_vars

(* ------------- TodoList: sibling controls, one provider ---------------- *)
\* onMouseLeave of the todo item's row: handleMouseLeave
handleMouseLeave(c) == resetPosition(c)

InitList == InitWith(REQUIRED_CLICKS, HANDLE_COMPLETE)

ItemClick ==
    \E c \in Controls : troll[c].clickCount < MaxListClicks /\ ButtonClick(c)
ItemHover ==
    \E c \in Controls : troll[c].escapeCount < MaxListHovers /\ ButtonHover(c)
ItemConfirm == \E c \in Controls : DialogConfirm(c)
ItemCancel == \E c \in Controls : DialogCancel(c)
ItemMouseLeave == \E c \in Controls : handleMouseLeave(c)

NextList ==
    \/ ItemClick
    \/ ItemHover
    \/ ItemConfirm
    \/ ItemCancel
    \/ ItemMouseLeave

SpecList == InitList /\ [][NextList]_vars

(* ------- sibling controls whose owner keeps them rendered (spies) ------- *)
\* two controls in one provider, each with a spy as onComplete and
\* isCompleted = false whatever happens
InitSiblings == InitWith(REQUIRED_CLICKS, "spy-1")

SpecSiblings == InitSiblings /\ [][NextList]_vars

(* ------------- one control of the app and a user who insists ----------- *)
\* a control whose owner is a TodoItem, used in any way the UI allows; the
\* user who clicks whenever no dialog is shown and confirms whenever one is
\* shown does not give up (weak fairness on the two).
InitLive == \E required \in 1..MaxThreshold : InitWith(required, HANDLE_COMPLETE)

\* the click of the strategy: no dialog is shown
StrategyClick == troll[Solo].dialogStage = 0 /\ ButtonClick(Solo)

\* any other click the UI allows
LiveClick == troll[Solo].dialogStage # 0 /\ ButtonClick(Solo)

LiveHover == ButtonHover(Solo)

StrategyConfirm == DialogConfirm(Solo)

\* a cancel, as long as the click counter of the model has room for the
\* clicks that open the dialog again
LiveCancel == troll[Solo].clickCount < MaxClicks /\ DialogCancel(Solo)

LiveMouseLeave == handleMouseLeave(Solo)

NextLive ==
    \/ StrategyClick
    \/ LiveClick
    \/ LiveHover
    \/ StrategyConfirm
    \/ LiveCancel
    \/ LiveMouseLeave

SpecLive ==
    /\ InitLive
    /\ [][NextLive]_vars
    /\ WF_vars(StrategyClick)
    /\ WF_vars(StrategyConfirm)

(* --------------------- DoneButton, the fixed control ------------------- *)
\* the component returns null when the owner says the todo is completed
doneRendered(c) == ~isCompletedProp[c]

\* an activation that goes through the troll control's click handler
donePress_troll(c) == ButtonClick(c)

\* onClick={onComplete}: an activation of the button calls the owner's
\* onComplete; the handleComplete of a todo item marks the todo completed
donePress(c) ==
    /\ doneRendered(c)
    /\ completeCalls[c] < MaxCalls
    /\ completeCalls' = [completeCalls EXCEPT ![c] = @ + 1]
    /\ isCompletedProp' = [isCompletedProp EXCEPT
                              ![c] = IF onCompleteProp[c] = HANDLE_COMPLETE THEN TRUE ELSE @]
    /\ UNCHANGED <<hookVars, threshold, listVars, onCompleteProp, effectDeps,
                   mountVars, lastOp, storeVars, deleteVars>>

\* the owner renders the button again with props of its choice
doneRerender(c, fn, done) ==
    /\ onCompleteProp' = [onCompleteProp EXCEPT ![c] = fn]
    /\ isCompletedProp' = [isCompletedProp EXCEPT ![c] = done]
    /\ UNCHANGED <<hookVars, threshold, listVars, effectDeps, completeCalls,
                   mountVars, lastOp, storeVars, deleteVars>>

InitDone == \E fn \in {HANDLE_COMPLETE, "spy-1"} : InitWith(REQUIRED_CLICKS, fn)

\* a mouse click on the button
DoneClick == \E c \in Controls : donePress(c)
\* Enter or Space on the focused button, which the browser turns into a click
DoneKey == \E c \in Controls, key \in {"Enter", " "} : donePress(c)
\* the pointer enters the button: no handler is attached
DoneHover == \E c \in Controls : doneRendered(c) /\ UNCHANGED vars
DoneOwnerRerender ==
    \E c \in Controls, fn \in OnCompleteFns, done \in BOOLEAN : doneRerender(c, fn, done)

NextDone ==
    \/ DoneClick
    \/ DoneKey
    \/ DoneHover
    \/ DoneOwnerRerender

SpecDone == InitDone /\ [][NextDone]_vars

(* ---------------- TodoItem: one row under spies as callbacks ----------- *)
\* onClick of the row's delete button: () => onDelete(todo.id)
deleteButtonClick(c) ==
    /\ mounted[c]
    /\ deleteCalls[c] < MaxDeleteClicks
    /\ deleteCalls' = [deleteCalls EXCEPT ![c] = @ + 1]
    /\ UNCHANGED <<hookVars, ownerVars, listVars, threshold, mountVars, lastOp,
                   storeVars, deleteOpen, callOrder>>

InitItem == InitWith(REQUIRED_CLICKS, "spy-1")

RowClick == ButtonClick(Solo)
RowHover == ButtonHover(Solo)
RowConfirm == DialogConfirm(Solo)
RowCancel == DialogCancel(Solo)
RowMouseLeave == handleMouseLeave(Solo)
RowDeleteClick == deleteButtonClick(Solo)

NextItem ==
    \/ RowClick
    \/ RowHover
    \/ RowConfirm
    \/ RowCancel
    \/ RowMouseLeave
    \/ RowDeleteClick

SpecItem == InitItem /\ [][NextItem]_vars

(* ------------------------ DeleteConfirmationDialog --------------------- *)
\* a handleConfirm that closes the dialog before it confirms
handleConfirm_closesFirst == <<"close", "confirm">>

\* handleConfirm: onConfirm(); onOpenChange(false); as the calls it makes
handleConfirm == <<"confirm", "close">>

\* the Cancel button, and the Dialog's own dismissal: onOpenChange(false)
handleDismiss == <<"close">>

\* the dialog makes the calls of a handler; its owner may follow onOpenChange
\* (a row keeping the open state) or not (a spy)
dialogCalls(calls) ==
    /\ deleteOpen
    /\ Len(callOrder) + Len(calls) <= MaxDialogCalls
    /\ callOrder' = callOrder \o calls
    /\ deleteOpen' \in {deleteOpen, FALSE}
    /\ UNCHANGED <<hookVars, ownerVars, listVars, threshold, mountVars, lastOp,
                   storeVars, deleteCalls>>

InitDialog == InitWith(REQUIRED_CLICKS, "spy-1")

\* the owner renders the dialog with open = true
DeleteDialogOpen ==
    /\ ~deleteOpen
    /\ deleteOpen' = TRUE
    /\ UNCHANGED <<hookVars, ownerVars, listVars, threshold, mountVars, lastOp,
                   storeVars, deleteCalls, callOrder>>
\* the Delete button
DeleteDialogConfirm == dialogCalls(handleConfirm)
\* the Cancel button
DeleteDialogCancel == dialogCalls(handleDismiss)
\* the Escape key or a click outside the dialog
DeleteDialogDismiss == dialogCalls(handleDismiss)

NextDialog ==
    \/ DeleteDialogOpen
    \/ DeleteDialogConfirm
    \/ DeleteDialogCancel
    \/ DeleteDialogDismiss

SpecDialog == InitDialog /\ [][NextDialog]_vars

(* ------------------------------ useTodos ------------------------------- *)
\* A text is the sequence of its characters. The whitespace String.trim removes:
WHITESPACE == {" ", "\t"}

RECURSIVE trimStart(_)
trimStart(s) ==
    IF s # <<>> /\ Head(s) \in WHITESPACE THEN trimStart(Tail(s)) ELSE s

RECURSIVE trimEnd(_)
trimEnd(s) ==
    IF s # <<>> /\ s[Len(s)] \in WHITESPACE
    THEN trimEnd(SubSeq(s, 1, Len(s) - 1))
    ELSE s

\* String.prototype.trim
trim(s) == trimEnd(trimStart(s))

\* the texts a caller passes to addTodo
TextInputs == {<<>>, <<" ">>, <<"\t", " ">>, <<"a">>, <<" ", "a", " ", "b", "\t">>}
\* the values Date.now() returns: later than the createdAt of a stored todo
Instants == {1001}
\* uuidv4(): the n-th id issued is n; 0 is an id that uuidv4 did not issue
\* (the '1' of a stored fixture, or an id unknown to the list)
FOREIGN_ID == 0
StoreIds == 0..MaxAdds

\* JSON.stringify of a list of todos: an array of objects, each written as the
\* values of its members id, text, completed, createdAt
JSON_stringify(list) ==
    [kind |-> "array",
     items |-> [i \in 1..Len(list) |->
                  <<list[i].id, list[i].text, list[i].completed, list[i].createdAt>>]]

\* a parse that loses the completed flag
JSON_parse_losesCompleted(doc) ==
    [i \in 1..Len(doc.items) |->
        [id |-> doc.items[i][1], text |-> doc.items[i][2],
         completed |-> FALSE, createdAt |-> doc.items[i][4]]]

\* JSON.parse of a stored array: the objects with their members
JSON_parse(doc) ==
    [i \in 1..Len(doc.items) |->
        [id |-> doc.items[i][1], text |-> doc.items[i][2],
         completed |-> doc.items[i][3], createdAt |-> doc.items[i][4]]]

\* what can be found under STORAGE_KEY when a store is constructed: nothing,
\* the empty string, text that is not JSON, JSON that is not an array, and
\* arrays: empty, one stored todo, one stored todo whose text is blank
StoredSamples ==
    {[kind |-> "null", items |-> <<>>],
     [kind |-> "empty", items |-> <<>>],
     [kind |-> "invalid", items |-> <<>>],
     [kind |-> "object", items |-> <<>>],
     [kind |-> "array", items |-> <<>>],
     [kind |-> "array", items |-> << <<FOREIGN_ID, <<"a">>, FALSE, 1000>> >>],
     [kind |-> "array", items |-> << <<FOREIGN_ID, <<" ">>, FALSE, 1000>> >>]}

\* loadTodosFromStorage; readThrows: localStorage.getItem throws
loadTodosFromStorage(stored, readThrows) ==
    IF readThrows THEN <<>>
    ELSE IF stored.kind \in {"null", "empty"} THEN <<>>
    ELSE IF stored.kind = "invalid" THEN <<>>
    ELSE IF stored.kind = "array" THEN JSON_parse(stored)
    ELSE <<>>

\* a saveTodosToStorage without try/catch: the Error of setItem escapes
saveTodosToStorage_uncaught(list, writeThrows) ==
    /\ writeThrows => writeFailures < MaxWriteFailures
    /\ storage' = IF writeThrows THEN storage ELSE JSON_stringify(list)
    /\ writeOk' = ~writeThrows
    /\ writeFailures' = IF writeThrows THEN writeFailures + 1 ELSE writeFailures
    /\ renderError' = IF writeThrows THEN "setItem failed" ELSE renderError

\* saveTodosToStorage, run by the effect on [todos]; writeThrows:
\* localStorage.setItem throws, which is caught and logged
saveTodosToStorage(list, writeThrows) ==
    /\ writeThrows => writeFailures < MaxWriteFailures
    /\ storage' = IF writeThrows THEN storage ELSE JSON_stringify(list)
    /\ writeOk' = ~writeThrows
    /\ writeFailures' = IF writeThrows THEN writeFailures + 1 ELSE writeFailures
    /\ UNCHANGED renderError

notStore == <<hookVars, ownerVars, listVars, threshold, provided, mounted, lastOp,
              deleteVars>>

\* a completeTodo that toggles the flag
completeUpdater_toggles(prev, id) ==
    [i \in 1..Len(prev) |->
        IF prev[i].id = id THEN [prev[i] EXCEPT !.completed = ~@] ELSE prev[i]]

\* the updater of completeTodo: prev.map(...)
completeUpdater(prev, id) ==
    [i \in 1..Len(prev) |->
        IF prev[i].id = id THEN [prev[i] EXCEPT !.completed = TRUE] ELSE prev[i]]

\* prev.filter(keep), keeping the order
RECURSIVE filter(_, _)
filter(prev, id) ==
    IF prev = <<>> THEN <<>>
    ELSE IF Head(prev).id # id
         THEN <<Head(prev)>> \o filter(Tail(prev), id)
         ELSE filter(Tail(prev), id)

\* a deleteTodo that also drops the todo at the head of the list
deleteUpdater_dropsHead(prev, id) ==
    IF prev = <<>> THEN <<>> ELSE filter(Tail(prev), id)

\* the updater of deleteTodo: prev.filter((todo) => todo.id !== id)
deleteUpdater(prev, id) == filter(prev, id)

\* addTodo(text), with the value of Date.now() and whether the write of the
\* save effect throws; a blank text returns before setTodos, so no effect runs
addTodo(text, now, writeThrows) ==
    LET trimmed == trim(text)
        newTodo == [id |-> uuids + 1, text |-> trimmed, completed |-> FALSE,
                    createdAt |-> now]
    IN  /\ lastStoreOp' = "addTodo"
        /\ IF trimmed = <<>>
           THEN UNCHANGED <<todos, storage, writeOk, writeFailures, uuids, renderError>>
           ELSE /\ uuids < MaxAdds
                /\ uuids' = uuids + 1
                /\ todos' = Append(todos, newTodo)
                /\ saveTodosToStorage(todos', writeThrows)

\* completeTodo(id): map builds a new array, so the save effect runs
completeTodo(id, writeThrows) ==
    /\ lastStoreOp' = "completeTodo"
    /\ todos' = completeUpdater(todos, id)
    /\ saveTodosToStorage(todos', writeThrows)
    /\ UNCHANGED uuids

\* deleteTodo(id): filter builds a new array, so the save effect runs
deleteTodo(id, writeThrows) ==
    /\ lastStoreOp' = "deleteTodo"
    /\ todos' = deleteUpdater(todos, id)
    /\ saveTodosToStorage(todos', writeThrows)
    /\ UNCHANGED uuids

\* a fresh useTodos instance: the list is loaded from storage and the save
\* effect of the first render writes it back
useTodos(readThrows, writeThrows) ==
    /\ lastStoreOp' = "useTodos"
    /\ todos' = loadTodosFromStorage(storage, readThrows)
    /\ saveTodosToStorage(todos', writeThrows)
    /\ UNCHANGED uuids

\* the first instance, over whatever the storage holds
InitStore ==
    /\ InitProgram(REQUIRED_CLICKS, "spy-1")
    /\ NoDelete
    /\ provided = TRUE
    /\ mounted = [c \in Controls |-> TRUE]
    /\ renderError = NULL
    /\ uuids = 0
    /\ lastStoreOp = "useTodos"
    /\ \E stored \in StoredSamples, readThrows \in BOOLEAN, writeThrows \in BOOLEAN :
           /\ todos = loadTodosFromStorage(stored, readThrows)
           /\ storage = IF writeThrows THEN stored ELSE JSON_stringify(todos)
           /\ writeOk = ~writeThrows
           /\ writeFailures = IF writeThrows THEN 1 ELSE 0

StoreAdd ==
    \E text \in TextInputs, now \in Instants, writeThrows \in BOOLEAN :
        addTodo(text, now, writeThrows) /\ UNCHANGED notStore
StoreComplete ==
    \E id \in StoreIds, writeThrows \in BOOLEAN :
        completeTodo(id, writeThrows) /\ UNCHANGED notStore
StoreDelete ==
    \E id \in StoreIds, writeThrows \in BOOLEAN :
        deleteTodo(id, writeThrows) /\ UNCHANGED notStore
StoreReload ==
    \E readThrows \in BOOLEAN, writeThrows \in BOOLEAN :
        useTodos(readThrows, writeThrows) /\ UNCHANGED notStore

NextStore ==
    \/ StoreAdd
    \/ StoreComplete
    \/ StoreDelete
    \/ StoreReload

SpecStore == InitStore /\ [][NextStore]_vars

(* --------------- App: useTodos, TodoList and its TodoItems ------------- *)
\* the todo id of each control (todoId={todo.id}): uuidv4() issued them in
\* this order
TodoIds == [c \in Controls |-> IF c = Solo THEN 1 ELSE 2]

\* the control of the todo with the given id
controlOf(id) == CHOOSE c \in Controls : TodoIds[c] = id

\* the todo of control c in a list
todoOf(list, c) == CHOOSE t \in {list[i] : i \in 1..Len(list)} : t.id = TodoIds[c]

\* the list has a todo for control c
listed(list, c) == \E i \in 1..Len(list) : list[i].id = TodoIds[c]

\* a handleComplete bound to the first todo of the list, whichever row it is in
handleComplete_firstRow(c) ==
    IF completeCalls'[c] # completeCalls[c]
    THEN completeTodo(todos[1].id, FALSE)
    ELSE UNCHANGED <<storeVars, renderError>>

\* handleComplete of the TodoItem, called by the completion effect of the
\* control: onComplete(todo.id), which App binds to completeTodo
handleComplete(c) ==
    IF completeCalls'[c] # completeCalls[c]
    THEN completeTodo(TodoIds[c], FALSE)
    ELSE UNCHANGED <<storeVars, renderError>>

\* a TodoList that keeps its provider when the list is empty
TodoList_keepsProvider(list) == TRUE

\* TodoList: the provider is rendered only around a non-empty list
TodoList(list) == Len(list) > 0

\* a provider that forgets an active control whose todo left the list
TrollButtonProvider_forgetsDeleted ==
    /\ provided' = TodoList(todos')
    /\ IF provided /\ provided'
       THEN /\ activeButtonId' = IF activeButtonId # NULL /\ ~mounted'[activeButtonId]
                                 THEN NULL ELSE activeButtonId
            /\ UNCHANGED lastHovered
       ELSE activeButtonId' = NULL /\ UNCHANGED lastHovered

\* the TrollButtonProvider of the rendered list: a provider that was not
\* there before starts from useState(null)
TrollButtonProvider ==
    /\ provided' = TodoList(todos')
    /\ IF provided /\ provided'
       THEN UNCHANGED <<activeButtonId, lastHovered>>
       ELSE activeButtonId' = NULL /\ UNCHANGED lastHovered

\* the TodoItem of control c unmounts: the state of its hook is gone
unmount(c) ==
    /\ troll' = [troll EXCEPT ![c] = initialState]
    /\ isComplete' = [isComplete EXCEPT ![c] = FALSE]
    /\ closure' = [closure EXCEPT ![c] = FALSE]
    /\ confirmed' = [confirmed EXCEPT ![c] = 0]
    /\ seqDone' = [seqDone EXCEPT ![c] = FALSE]
    /\ gateBase' = [gateBase EXCEPT ![c] = 0]
    /\ pristine' = [pristine EXCEPT ![c] = TRUE]

\* the texts submitted in the App: a blank one and one with padding; writes
\* to localStorage succeed here (SpecStore has the ones that throw)
AppTexts == {<<" ">>, <<" ", "a", " ", "b", "\t">>}

\* the App starts with nothing stored and an empty list: no provider yet
InitApp ==
    /\ InitProgram(REQUIRED_CLICKS, HANDLE_COMPLETE)
    /\ NoStore
    /\ NoDelete
    /\ provided = FALSE
    /\ mounted = [c \in Controls |-> FALSE]
    /\ renderError = NULL

\* AddTodo submits a text: a non-blank one becomes a todo, whose TodoItem and
\* control mount
AppAdd ==
    \E text \in AppTexts, now \in Instants :
        /\ uuids < Cardinality(Controls)
        /\ addTodo(text, now, FALSE)
        /\ mounted' = [c \in Controls |-> listed(todos', c)]
        /\ TrollButtonProvider
        /\ UNCHANGED <<hookVars, ownerVars, threshold, lastOp, deleteVars>>

\* the delete button of a row: onDelete(todo.id), the TodoItem unmounts
AppDelete ==
    \E c \in Controls :
        /\ mounted[c]
        /\ deleteTodo(TodoIds[c], FALSE)
        /\ mounted' = [d \in Controls |-> listed(todos', d)]
        /\ TrollButtonProvider
        /\ unmount(c)
        /\ UNCHANGED <<ownerVars, threshold, lastOp, deleteVars>>

AppClick ==
    \E c \in Controls :
        /\ troll[c].clickCount < MaxListClicks
        /\ rendered(c)
        /\ handleClick(c)
        /\ Rerender(c)
        /\ handleComplete(c)
        /\ UNCHANGED <<threshold, listVars, provided, mounted, lastOp, deleteVars>>

AppHover ==
    \E c \in Controls :
        /\ troll[c].escapeCount < MaxListHovers
        /\ rendered(c)
        /\ setActiveButton(c)
        /\ handleHover(c)
        /\ lastHovered' = c
        /\ Rerender(c)
        /\ handleComplete(c)
        /\ UNCHANGED <<threshold, provided, mounted, lastOp, deleteVars>>

AppConfirm ==
    \E c \in Controls :
        /\ isOpen(c)
        /\ confirmDialog(c)
        /\ Rerender(c)
        /\ handleComplete(c)
        /\ UNCHANGED <<threshold, listVars, provided, mounted, lastOp, deleteVars>>

AppCancel ==
    \E c \in Controls :
        /\ isOpen(c)
        /\ cancelDialog(c)
        /\ Rerender(c)
        /\ handleComplete(c)
        /\ UNCHANGED <<threshold, listVars, provided, mounted, lastOp, deleteVars>>

AppMouseLeave ==
    \E c \in Controls :
        /\ mounted[c]
        /\ resetHoverOffset(c)
        /\ Rerender(c)
        /\ handleComplete(c)
        /\ UNCHANGED <<threshold, listVars, provided, mounted, lastOp, deleteVars>>

NextApp ==
    \/ AppAdd
    \/ AppDelete
    \/ AppClick
    \/ AppHover
    \/ AppConfirm
    \/ AppCancel
    \/ AppMouseLeave

SpecApp == InitApp /\ [][NextApp]_vars

(* ------------------------ claims on the hook --------------------------- *)
N == Len(TROLL_MESSAGES)

\* C1: on a control that has not completed since its last reset, starting from
\* dialogStage = 1 with no intervening cancel or reset, three consecutive
\* confirmDialog calls leave isComplete = TRUE and dialogStage = 0; after only
\* one or two confirms isComplete is still FALSE and dialogStage is 2 or 3.
C1_ThreeConfirmsComplete ==
    \A c \in Controls :
        /\ confirmed[c] = N => isComplete[c] /\ troll[c].dialogStage = 0
        /\ (confirmed[c] \in 1..(N - 1) /\ ~seqDone[c]) =>
               ~isComplete[c] /\ troll[c].dialogStage = confirmed[c] + 1

\* C1 witness: the third confirm in a row has just completed the control.
C1_Witness ==
    /\ confirmed[Solo] = 3
    /\ isComplete[Solo]
    /\ troll[Solo].dialogStage = 0
    /\ troll[Solo].clickCount >= 1

\* C2: isComplete implies that the click gate was passed (clickCount >=
\* threshold) and that messages 1, 2 and 3 were confirmed in order since the
\* last reset, for every call sequence of the hook's operations.
C2_CompletionNeedsClicksAndDialogs ==
    \A c \in Controls :
        isComplete[c] => troll[c].clickCount >= threshold /\ seqDone[c]

\* C7: cancelDialog at stage 1, 2 or 3 sets dialogStage to 0 and currentMessage
\* to none and leaves clickCount, rotation, scale, the hover offset,
\* escapeDirection, escapeCount and isComplete unchanged.
C7_CancelFrame ==
    [][(CancelDialog /\ troll[Solo].dialogStage \in 1..3) =>
          /\ troll'[Solo].dialogStage = 0
          /\ currentMessage(troll'[Solo]) = NULL
          /\ troll'[Solo].clickCount = troll[Solo].clickCount
          /\ troll'[Solo].rotation = troll[Solo].rotation
          /\ troll'[Solo].scale = troll[Solo].scale
          /\ troll'[Solo].hoverEscapeOffset = troll[Solo].hoverEscapeOffset
          /\ troll'[Solo].escapeDirection = troll[Solo].escapeDirection
          /\ troll'[Solo].escapeCount = troll[Solo].escapeCount
          /\ isComplete'[Solo] = isComplete[Solo]]_vars

\* C7 witness: a dialog opened by clicking was cancelled on a control that had
\* been clicked and hovered; the clicks and the displacement are still there.
C7_Witness ==
    /\ troll[Solo].dialogStage = 0
    /\ ~isComplete[Solo]
    /\ gateBase[Solo] >= 1
    /\ troll[Solo].clickCount = gateBase[Solo]
    /\ troll[Solo].rotation > 0
    /\ troll[Solo].hoverEscapeOffset.x # 0
    /\ troll[Solo].escapeCount >= 1

\* C8: on a fresh control, after one or two clicks dialogStage is 0 and no
\* message is shown, and the third click sets dialogStage to 1 and shows
\* "Are you SURE?".
C8_DialogStartsOnThirdClick ==
    \A c \in Controls :
        pristine[c] =>
            /\ troll[c].clickCount \in {1, 2} =>
                   troll[c].dialogStage = 0 /\ currentMessage(troll[c]) = NULL
            /\ troll[c].clickCount = 3 =>
                   troll[c].dialogStage = 1 /\ currentMessage(troll[c]) = "Are you SURE?"

\* C10: in every reachable state isComplete implies dialogStage = 0.
C10_CompleteImpliesNoDialog ==
    \A c \in Controls : isComplete[c] => troll[c].dialogStage = 0

(* ---------------------- claims on the control -------------------------- *)
\* C3: across "click to threshold, then confirm three times" the owner's
\* onComplete is invoked exactly once, by the third confirm: no click, hover or
\* cancel invokes it, the first and second confirm do not invoke it, and the
\* confirm of the third message takes the number of invocations from 0 to 1.
C3_CalledOnceByThirdConfirm ==
    [][/\ (ControlClick \/ ControlHover \/ ControlCancel) =>
              completeCalls' = completeCalls
       /\ ControlConfirm =>
              IF troll[Solo].dialogStage = N
              THEN completeCalls[Solo] = 0 /\ completeCalls'[Solo] = 1
              ELSE completeCalls' = completeCalls
       /\ ~isComplete'[Solo] => completeCalls'[Solo] = 0]_vars

\* C3 witness: the control was clicked to a threshold of 3, its three messages
\* were confirmed, and onComplete has been invoked once.
C3_Witness ==
    /\ threshold = 3
    /\ troll[Solo].clickCount >= 3
    /\ confirmed[Solo] = 3
    /\ isComplete[Solo]
    /\ completeCalls[Solo] = 1

\* C4: once isComplete is true and onComplete has been invoked, no later step
\* (no re-render, whatever props the owner passes) invokes it again while
\* isComplete stays true.
C4_EdgeTriggered ==
    [][\A c \in Controls :
          (isComplete[c] /\ isComplete'[c] /\ completeCalls[c] >= 1) =>
              completeCalls'[c] = completeCalls[c]]_vars

C5_ActiveIsLastHovered ==
    \A c \in Controls :
        /\ isActiveButton(c) <=> lastHovered = c
        /\ ~isActiveButton(c) => renderedOffset(c) = 0

\* C5 witness: todo-1 was hovered, then todo-2; todo-1 still stores a nonzero
\* offset and is drawn at 0, todo-2 is the active one and is drawn displaced.
C5_Witness ==
    /\ lastHovered = "todo-2"
    /\ isActiveButton("todo-2")
    /\ ~isActiveButton("todo-1")
    /\ rendered("todo-1")
    /\ troll["todo-1"].hoverEscapeOffset.x # 0
    /\ renderedOffset("todo-1") = 0
    /\ renderedOffset("todo-2") # 0

\* C6: at most one control is drawn at a nonzero offset.
C6_AtMostOneDisplaced ==
    Cardinality({c \in Controls : renderedOffset(c) # 0}) <= 1

\* C6 witness: both controls store a nonzero offset (neither was reset) and
\* both are rendered, yet only one is drawn displaced.
C6_Witness ==
    /\ \A c \in Controls : rendered(c) /\ troll[c].hoverEscapeOffset.x # 0
    /\ Cardinality({c \in Controls : renderedOffset(c) # 0}) = 1

(* --------------------- claims on the hook, continued ------------------- *)
\* C11: Complete is terminal for handleClick, handleHover, confirmDialog and
\* cancelDialog: once isComplete is TRUE, none of them changes any state field
\* and isComplete stays TRUE (only resetTroll leaves Complete).
C11_CompleteIsTerminal ==
    [][(isComplete[Solo] /\ (HandleClick \/ HandleHover \/ ConfirmDialog \/ CancelDialog)) =>
          /\ troll'[Solo] = troll[Solo]
          /\ isComplete'[Solo]]_vars

\* C12: the messages are ordered and cannot be skipped: currentMessage is
\* "Are you SURE?", "Really?", "But what if you're wrong?" at dialogStage 1, 2,
\* 3 and none otherwise; no operation moves dialogStage from k to a stage
\* above k + 1 (a stage changes to the next one or to 0); and a control
\* completes only from stage 3, the three messages having been confirmed in
\* order since the dialog opened.
C12_OrderedMessages ==
    [][LET stage == troll[Solo].dialogStage
           next == troll'[Solo].dialogStage
           shown == currentMessage(troll'[Solo])
       IN  /\ next \in {stage, stage + 1, 0}
           /\ next \in 0..3
           /\ next = 0 => shown = NULL
           /\ next = 1 => shown = "Are you SURE?"
           /\ next = 2 => shown = "Really?"
           /\ next = 3 => shown = "But what if you're wrong?"
           /\ (~isComplete[Solo] /\ isComplete'[Solo]) =>
                  stage = 3 /\ next = 0 /\ confirmed'[Solo] = 3]_vars

\* C12 witness: the first two messages were confirmed in order and the third
\* one is showing.
C12_Witness ==
    /\ troll[Solo].dialogStage = 3
    /\ confirmed[Solo] = 2
    /\ currentMessage(troll[Solo]) = "But what if you're wrong?"
    /\ lastOp.op = "confirmDialog" /\ lastOp.dialogStage = 2

\* the double the closed form max(0.5, 1.0 - 0.1 * k) denotes
closedFormScale(k) == dblLiteral(Max(5, 10 - k))

\* C13: for every number k of clicks since the last reset,
\* scale = max(0.5, 1.0 - 0.1 * k); scale is never below MIN_SCALE = 0.5 (after
\* 10 clicks it is exactly 0.5) and never above 1.0.
C13_ScaleIsClosedForm ==
    LET k == troll[Solo].clickCount
        scale == troll[Solo].scale
    IN  /\ scale = closedFormScale(k)
        /\ ~dblLess(scale, dblLiteral(5))
        /\ ~dblLess(dblLiteral(10), scale)
        /\ k = 10 => scale = dblLiteral(5)

\* C13, amended: scale is the result of k double subtractions of 0.1 floored at
\* 0.5. It equals the closed form for k <= 2 and for k >= 6 (exactly 0.5 from
\* the sixth click on, so after 10 clicks), and for k = 3, 4, 5 it is the
\* closed form or the double just above it (0.7000000000000001,
\* 0.6000000000000001, 0.5000000000000001); it is never below 0.5 and never
\* above 1.0.
C13_ScaleWithinOneUlp ==
    LET k == troll[Solo].clickCount
        scale == troll[Solo].scale
        closed == closedFormScale(k)
    IN  /\ ~dblLess(scale, dblLiteral(5))
        /\ ~dblLess(dblLiteral(10), scale)
        /\ (k <= 2 \/ k >= 6) => scale = closed
        /\ k >= 6 => scale = dblLiteral(5)
        /\ scale.tenths = closed.tenths
        /\ scale.dev - closed.dev \in {0, 80}

\* C13 witness: ten clicks were accepted since the last reset and the scale
\* sits on the floor.
C13_Witness ==
    /\ troll[Solo].clickCount = 10
    /\ troll[Solo].scale = dblLiteral(5)
    /\ troll[Solo].rotation = 150

\* C14: rotation = 15 * clickCount in every reachable state: each accepted
\* click adds exactly 15 degrees, no operation other than handleClick and
\* resetTroll changes rotation, resetTroll zeroes rotation and clickCount, and
\* rotation is not capped or wrapped.
C14_RotationIsFifteenPerClick ==
    /\ troll[Solo].rotation = 15 * troll[Solo].clickCount
    /\ [][/\ troll'[Solo].rotation = 15 * troll'[Solo].clickCount
          /\ (HandleClick /\ ~isComplete[Solo]) =>
                 troll'[Solo].rotation = troll[Solo].rotation + 15
          /\ troll'[Solo].rotation # troll[Solo].rotation =>
                 HandleClick \/ ResetTroll
          /\ ResetTroll =>
                 troll'[Solo].rotation = 0 /\ troll'[Solo].clickCount = 0]_vars

\* C14 witness: ten clicks, with hovers and a cancelled dialog in between, have
\* turned the button by 150 degrees.
C14_Witness ==
    /\ troll[Solo].clickCount = 10
    /\ troll[Solo].rotation = 150
    /\ troll[Solo].escapeCount >= 1
    /\ lastOp.op = "cancelDialog"

\* the absolute value of a pixel offset
Abs(x) == IF x < 0 THEN -x ELSE x

\* C15: the n-th hover of a non-complete control since its last displacement
\* reset yields an offset with y = 0 and |x| in [80, 120] when n <= 4 and |x|
\* in [15, 25] when n >= 5; the sign of x is opposite to that of the previous
\* hover's x; and escapeCount increases by exactly 1.
C15_HoverEscape ==
    [][(HandleHover /\ ~isComplete[Solo]) =>
          LET n == troll[Solo].escapeCount + 1
              was == troll[Solo].hoverEscapeOffset
              now == troll'[Solo].hoverEscapeOffset
          IN  /\ now.y = 0
              /\ n <= 4 => Abs(now.x) \in 80..120
              /\ n >= 5 => Abs(now.x) \in 15..25
              /\ n >= 2 => (was.x # 0 /\ (was.x > 0) = (now.x < 0))
              /\ troll'[Solo].escapeCount = n]_vars

\* C15 witness: the fifth hover in a row has moved a tired button a short
\* distance.
C15_Witness ==
    /\ lastOp.op = "handleHover" /\ ~lastOp.isComplete
    /\ troll[Solo].escapeCount = 5
    /\ Abs(troll[Solo].hoverEscapeOffset.x) \in 15..25
    /\ troll[Solo].hoverEscapeOffset.y = 0

\* C16: resetTroll, from any reachable state (Complete and every dialog stage
\* included), restores clickCount = 0, rotation = 0, scale = 1.0,
\* dialogStage = 0, offset = (0, 0), escapeDirection = +1, escapeCount = 0 and
\* isComplete = FALSE; the hook is then in the state of a freshly constructed
\* one, so every later sequence of operations produces the same states.
C16_ResetRestoresFresh ==
    [][ResetTroll =>
          /\ troll'[Solo].clickCount = 0
          /\ troll'[Solo].rotation = 0
          /\ troll'[Solo].scale = Dbl(10, 0)
          /\ troll'[Solo].dialogStage = 0
          /\ troll'[Solo].hoverEscapeOffset = [x |-> 0, y |-> 0]
          /\ troll'[Solo].escapeDirection = 1
          /\ troll'[Solo].escapeCount = 0
          /\ isComplete'[Solo] = FALSE
          /\ troll'[Solo] = initialState
          /\ closure'[Solo] = FALSE
          /\ currentMessage(troll'[Solo]) = NULL]_vars

\* C16 witness: resetTroll was called on a complete control and left it in the
\* initial state.
C16_Witness ==
    /\ lastOp.op = "resetTroll" /\ lastOp.isComplete
    /\ troll[Solo] = initialState
    /\ ~isComplete[Solo]

(* ------------------- claims on the controls, continued ----------------- *)
\* C17: resetHoverOffset, reached through the owner's resetPosition on row
\* mouse-leave, sets the offset to (0, 0), escapeDirection to +1 and
\* escapeCount to 0 and leaves clickCount, rotation, scale, dialogStage,
\* isComplete, the provider's activeButtonId and the sibling controls unchanged.
C17_ResetPositionFrame ==
    [][\A c \in Controls : handleMouseLeave(c) =>
          /\ troll'[c].hoverEscapeOffset = [x |-> 0, y |-> 0]
          /\ troll'[c].escapeDirection = 1
          /\ troll'[c].escapeCount = 0
          /\ troll'[c].clickCount = troll[c].clickCount
          /\ troll'[c].rotation = troll[c].rotation
          /\ troll'[c].scale = troll[c].scale
          /\ troll'[c].dialogStage = troll[c].dialogStage
          /\ isComplete'[c] = isComplete[c]
          /\ activeButtonId' = activeButtonId
          /\ \A d \in Controls \ {c} : troll'[d] = troll[d]]_vars

\* C17 witness: a clicked control with its dialog showing was hovered, which
\* displaced it and made it the active one, and the mouse then left its row:
\* the displacement is gone, the clicks, the dialog and the active id are not.
C17_Witness ==
    /\ activeButtonId = Solo
    /\ ~isComplete[Solo]
    /\ troll[Solo].hoverEscapeOffset.x = 0
    /\ troll[Solo].escapeCount = 0
    /\ troll[Solo].clickCount = 2
    /\ troll[Solo].dialogStage = 2

\* C18: a troll control constructed with no TrollButtonProvider in scope fails
\* at once with the Error 'useTrollButtonContext must be used within a
\* TrollButtonProvider': it never renders (neither button nor dialog), never
\* accepts an event (its state stays the initial one, it never becomes the
\* active control) and never invokes the completion callback.
C18_NoProviderNoControl ==
    /\ [](~provided =>
            /\ ~rendered(Solo) /\ ~isOpen(Solo)
            /\ troll[Solo] = initialState /\ ~isComplete[Solo]
            /\ activeButtonId = NULL
            /\ completeCalls[Solo] = 0)
    /\ [][(~provided /\ ControlMount) =>
            renderError' = "useTrollButtonContext must be used within a TrollButtonProvider"]_vars

\* C18 witness: the render of a control outside any provider has thrown.
C18_Witness ==
    /\ ~provided
    /\ renderError = "useTrollButtonContext must be used within a TrollButtonProvider"
    /\ ~mounted[Solo]

\* C19: the fixed control DoneButton: on an incomplete todo every activation
\* (a click, or Enter/Space while focused) invokes onComplete exactly once, in
\* the same step, with no click count to reach and no dialog; the control is
\* there iff isCompleted is false, so onComplete is never invoked for a
\* completed todo; and it holds no state: no sequence of hovers and clicks
\* changes an offset, a rotation or a scale.
C19_DoneButtonCompletesAtOnce ==
    [][/\ \A c \in Controls :
            /\ doneRendered(c) = (isCompletedProp[c] = FALSE)
            /\ donePress(c) => completeCalls'[c] = completeCalls[c] + 1
            /\ completeCalls'[c] # completeCalls[c] =>
                   /\ ~isCompletedProp[c]
                   /\ completeCalls'[c] = completeCalls[c] + 1
                   /\ DoneClick \/ DoneKey
            /\ troll'[c] = initialState
            /\ ~isOpen(c)
       /\ (DoneClick \/ DoneKey) => completeCalls' # completeCalls
       /\ DoneHover => UNCHANGED vars]_vars

\* C19 witness: one activation of the button of an incomplete todo has invoked
\* the item's handleComplete once, and the todo is completed.
C19_Witness ==
    /\ completeCalls[Solo] = 1
    /\ onCompleteProp[Solo] = HANDLE_COMPLETE
    /\ isCompletedProp[Solo]
    /\ ~doneRendered(Solo)
    /\ troll[Solo] = initialState

\* C20: the troll control renders nothing, neither the button nor its dialog,
\* whenever its todo's isCompleted flag is true, whatever its internal state;
\* hence no click, hover, confirm or cancel reaches it: clickCount, rotation,
\* scale, dialogStage, escapeCount, isComplete, the active control and the
\* number of onComplete calls made for it by an event stay as they are.
C20_CompletedRendersNothing ==
    /\ [](isCompletedProp[Solo] =>
            /\ ~rendered(Solo)
            /\ ~isOpen(Solo)
            /\ renderedOffset(Solo) = 0)
    /\ [][isCompletedProp[Solo] =>
            /\ ~(ControlClick \/ ControlHover \/ ControlConfirm \/ ControlCancel)
            /\ ControlResetPosition \/ troll'[Solo] = troll[Solo]
            /\ troll'[Solo].clickCount = troll[Solo].clickCount
            /\ troll'[Solo].rotation = troll[Solo].rotation
            /\ troll'[Solo].scale = troll[Solo].scale
            /\ troll'[Solo].dialogStage = troll[Solo].dialogStage
            /\ isComplete'[Solo] = isComplete[Solo]
            /\ activeButtonId' = activeButtonId]_vars

\* C20 witness: the owner marked the todo completed while the control was
\* displaced and showing its second message; nothing of it is rendered.
C20_Witness ==
    /\ isCompletedProp[Solo]
    /\ ~isComplete[Solo]
    /\ troll[Solo].dialogStage = 2
    /\ troll[Solo].hoverEscapeOffset.x # 0
    /\ activeButtonId = Solo
    /\ ~isOpen(Solo)

(* ----------------------- claims on the todo rows ----------------------- *)
\* C21: clicking a row's delete button opens the delete-confirmation dialog
\* and does not call onDelete; onDelete(todo.id) is called only when the user
\* confirms in the dialog, and no dismissal ever calls it.
C21_DeleteNeedsConfirmation ==
    [][RowDeleteClick =>
          /\ deleteCalls'[Solo] = deleteCalls[Solo]
          /\ deleteOpen']_vars

\* the calls the delete dialog has made since the state before this step
newCalls == SubSeq(callOrder', Len(callOrder) + 1, Len(callOrder'))

idsOf(list) == {list[i].id : i \in 1..Len(list)}

\* C24: completeTodo(id) sets completed = TRUE on exactly the todos whose id is
\* id and leaves every other todo, every other field and the order unchanged;
\* it is idempotent and a no-op for an unknown id; and no operation of the
\* store (addTodo, completeTodo, deleteTodo) turns completed from TRUE to FALSE.
C24_CompleteTodo ==
    [][/\ \A id \in StoreIds :
            (lastStoreOp' = "completeTodo" /\ todos' = completeUpdater(todos, id)) =>
                /\ Len(todos') = Len(todos)
                /\ \A i \in 1..Len(todos) :
                      /\ todos'[i].id = todos[i].id
                      /\ todos'[i].text = todos[i].text
                      /\ todos'[i].createdAt = todos[i].createdAt
                      /\ todos'[i].completed = (todos[i].completed \/ todos[i].id = id)
                /\ id \notin idsOf(todos) => todos' = todos
                /\ completeUpdater(todos', id) = todos'
       /\ StoreComplete => \E id \in StoreIds : todos' = completeUpdater(todos, id)
       /\ (StoreAdd \/ StoreComplete \/ StoreDelete) =>
              \A i \in 1..Len(todos), j \in 1..Len(todos') :
                  (todos[i].id = todos'[j].id /\ todos[i].completed) => todos'[j].completed]_vars

\* C24 witness: the first of two todos was completed, the second was not.
C24_Witness ==
    /\ lastStoreOp = "completeTodo"
    /\ Len(todos) = 2
    /\ todos[1].completed /\ ~todos[2].completed
    /\ todos[1].id # todos[2].id

\* C25: deleteTodo(id) removes exactly the todos whose id is id; all other
\* todos keep their fields and their relative order; deleting an id that is
\* not in the list leaves the list unchanged.
C25_DeleteTodo ==
    [][StoreDelete =>
          \E id \in StoreIds :
              /\ todos' = SelectSeq(todos, LAMBDA t : t.id # id)
              /\ id \notin idsOf(todos')
              /\ id \notin idsOf(todos) => todos' = todos]_vars

\* C25 witness: of three todos the middle one was deleted; the other two are
\* still there, in their order.
C25_Witness ==
    /\ lastStoreOp = "deleteTodo"
    /\ uuids = 2
    /\ Len(todos) = 2
    /\ todos[1].id = FOREIGN_ID /\ todos[2].id = 2

C27_StorageFailuresAbsorbed ==
    /\ [](renderError = NULL)
    /\ [][/\ \A readThrows \in BOOLEAN, writeThrows \in BOOLEAN :
                (useTodos(readThrows, writeThrows) /\
                    (readThrows \/ storage.kind \in {"null", "empty", "invalid", "object"})) =>
                    todos' = <<>>
          /\ writeFailures' > writeFailures =>
                /\ storage' = storage
                /\ StoreAdd => \E text \in TextInputs, now \in Instants :
                       /\ trim(text) # <<>>
                       /\ todos' = Append(todos, [id |-> uuids', text |-> trim(text),
                                                  completed |-> FALSE, createdAt |-> now])
                /\ StoreComplete => \E id \in StoreIds : todos' = completeUpdater(todos, id)
                /\ StoreDelete => \E id \in StoreIds : todos' = deleteUpdater(todos, id)]_vars

\* C27 witness: the write of an addTodo threw; the todo is in the list, the
\* stored value is the older one, and no error was raised.
C27_Witness ==
    /\ lastStoreOp = "addTodo"
    /\ ~writeOk /\ writeFailures = 1
    /\ Len(todos) = 2
    /\ storage = JSON_stringify(SubSeq(todos, 1, 1))
    /\ renderError = NULL

(* --------------------- claims on the dialog stages --------------------- *)
\* C28: in every reachable state dialogStage is an integer in 0..3, and the
\* confirmation dialog is open exactly when dialogStage is in 1..3: isOpen,
\* currentMessage being a message, and dialogStage >= 1 are equivalent.
C28_StageRangeAndOpen ==
    \A c \in Controls :
        /\ troll[c].dialogStage \in 0..3
        /\ isOpen(c) = (currentMessage(troll[c]) # NULL)
        /\ (currentMessage(troll[c]) # NULL) = (troll[c].dialogStage >= 1)
        /\ isOpen(c) = (troll[c].dialogStage \in 1..3)

\* C28 witness: the dialog of one control is open on the third message while
\* its sibling shows none.
C28_Witness ==
    /\ troll[Solo].dialogStage = 3 /\ isOpen(Solo)
    /\ \E c \in Controls \ {Solo} : troll[c].dialogStage = 0 /\ ~isOpen(c)

\* C29: a click accepted while a dialog is showing (dialogStage >= 1, control
\* not complete) leaves dialogStage unchanged, adds 1 to clickCount and 15 to
\* rotation and applies the floored scale decrement: clicks never advance or
\* restart the confirmation sequence.
C29_ClickKeepsStage ==
    [][(HandleClick /\ troll[Solo].dialogStage >= 1 /\ ~isComplete[Solo]) =>
          /\ troll'[Solo].dialogStage = troll[Solo].dialogStage
          /\ troll'[Solo].clickCount = troll[Solo].clickCount + 1
          /\ troll'[Solo].rotation = troll[Solo].rotation + 15
          /\ troll'[Solo].scale =
                 dblMax(Dbl(5, 0), dblSub(troll[Solo].scale, dblLiteral(1)))
          /\ ~isComplete'[Solo]]_vars

\* C29 witness: the button was clicked while the second message was showing;
\* the second message is still the one showing.
C29_Witness ==
    /\ lastOp.op = "handleClick" /\ lastOp.dialogStage = 2 /\ ~lastOp.isComplete
    /\ troll[Solo].dialogStage = 2
    /\ troll[Solo].clickCount >= 2

\* C30: confirmDialog changes only dialogStage, and isComplete on the final
\* confirm: clickCount, rotation, scale, the offset, escapeDirection and
\* escapeCount are the same before and after every call, the final one
\* included.
C30_ConfirmFrame ==
    [][ConfirmDialog =>
          /\ troll'[Solo].clickCount = troll[Solo].clickCount
          /\ troll'[Solo].rotation = troll[Solo].rotation
          /\ troll'[Solo].scale = troll[Solo].scale
          /\ troll'[Solo].hoverEscapeOffset = troll[Solo].hoverEscapeOffset
          /\ troll'[Solo].escapeDirection = troll[Solo].escapeDirection
          /\ troll'[Solo].escapeCount = troll[Solo].escapeCount
          /\ isComplete'[Solo] # isComplete[Solo] =>
                 troll[Solo].dialogStage = 3 /\ isComplete'[Solo]]_vars

\* C30 witness: the final confirm completed a control that had been clicked
\* three times and hovered twice; clicks, turn, size and displacement are
\* those it had.
C30_Witness ==
    /\ lastOp.op = "confirmDialog" /\ lastOp.dialogStage = 3 /\ ~lastOp.isComplete
    /\ isComplete[Solo]
    /\ troll[Solo].clickCount = 3 /\ troll[Solo].rotation = 45
    /\ troll[Solo].escapeCount = 2 /\ troll[Solo].hoverEscapeOffset.x # 0

(* ------------------- claims on batches and siblings -------------------- *)
\* C31: a click or hover delivered after the final confirm but before the
\* control has re-rendered is still a no-op: in no interleaving of handlers
\* and re-renders does a click or hover on a control whose isComplete is true
\* change clickCount, dialogStage or the offset.
C31_NoOpBeforeRerender ==
    [][((HandleClick \/ HandleHover) /\ isComplete[Solo]) =>
          /\ troll'[Solo].clickCount = troll[Solo].clickCount
          /\ troll'[Solo].dialogStage = troll[Solo].dialogStage
          /\ troll'[Solo].hoverEscapeOffset = troll[Solo].hoverEscapeOffset]_vars

\* C32: a hover on a rendered control whose isComplete is already true is a
\* no-op for the whole system: it changes neither that control's state nor
\* the provider's activeButtonId, so it takes the active slot from no sibling.
C32_CompleteHoverIsNoOp ==
    [][\A c \in Controls :
          (ButtonHover(c) /\ rendered(c) /\ isComplete[c]) =>
              /\ troll' = troll
              /\ activeButtonId' = activeButtonId]_vars

\* an event of the list on control c
eventOn(c) ==
    \/ ButtonClick(c)
    \/ ButtonHover(c)
    \/ DialogConfirm(c)
    \/ DialogCancel(c)
    \/ handleMouseLeave(c)

\* C33: events on one control (click, hover, confirm, cancel, resetPosition)
\* never change another control's clickCount, rotation, scale, dialogStage or
\* isComplete (nor any other field of its state) and never make another
\* control's completion callback fire; of the state outside the control only
\* the provider's activeButtonId changes.
C33_SiblingsIndependent ==
    [][\A c \in Controls : eventOn(c) =>
          /\ \A d \in Controls \ {c} :
                /\ troll'[d] = troll[d]
                /\ isComplete'[d] = isComplete[d]
                /\ completeCalls'[d] = completeCalls[d]
                /\ isCompletedProp'[d] = isCompletedProp[d]
          /\ UNCHANGED <<threshold, mountVars, storeVars, deleteVars>>]_vars

\* C33 witness: one todo was completed through its own control, its callback
\* fired once, while the sibling is in the middle of its own sequence.
C33_Witness ==
    \E c \in Controls, d \in Controls :
        /\ c # d
        /\ isComplete[c] /\ completeCalls[c] = 1 /\ troll[c].dialogStage = 0
        /\ ~isComplete[d] /\ completeCalls[d] = 0
        /\ troll[d].dialogStage = 2 /\ troll[d].clickCount = 2
        /\ activeButtonId = d

\* C34: when a sibling control becomes the active displaced one, the
\* displacement state of the previously active control is reset: its stored
\* offset is (0,0) again, its escapeDirection the initial one and its
\* escapeCount 0.
C34_PreviousActiveIsReset ==
    [][\A c \in Controls, d \in Controls :
          (c # d /\ activeButtonId = d /\ ButtonHover(c) /\ activeButtonId' = c) =>
              /\ troll'[d].hoverEscapeOffset = initialState.hoverEscapeOffset
              /\ troll'[d].escapeDirection = initialState.escapeDirection
              /\ troll'[d].escapeCount = 0]_vars

\* C35: the first hover escape of a fresh control, and the first one after a
\* displacement reset or a full reset, moves the button to the right (positive
\* x offset); each later escape goes to the side opposite to the previous one.
C35_FirstEscapeGoesRight ==
    [][(HandleHover /\ ~isComplete[Solo]) =>
          LET was == troll[Solo].hoverEscapeOffset
              now == troll'[Solo].hoverEscapeOffset
          IN  /\ troll[Solo].escapeCount = 0 => now.x > 0
              /\ troll[Solo].escapeCount > 0 => (was.x > 0) = (now.x < 0)]_vars

\* C36: click and hover act on disjoint fields: handleClick never changes the
\* offset, escapeDirection or escapeCount, so that activating the button
\* never displaces it and never makes it the active control; handleHover
\* never changes clickCount, rotation, scale, dialogStage or isComplete.
C36_ClickAndHoverDisjoint ==
    [][/\ ControlClick =>
             /\ troll'[Solo].hoverEscapeOffset = troll[Solo].hoverEscapeOffset
             /\ troll'[Solo].escapeDirection = troll[Solo].escapeDirection
             /\ troll'[Solo].escapeCount = troll[Solo].escapeCount
             /\ activeButtonId' = activeButtonId
             /\ transformStyle(Solo)' = transformStyle(Solo)
       /\ ControlHover =>
             /\ troll'[Solo].clickCount = troll[Solo].clickCount
             /\ troll'[Solo].rotation = troll[Solo].rotation
             /\ troll'[Solo].scale = troll[Solo].scale
             /\ troll'[Solo].dialogStage = troll[Solo].dialogStage
             /\ isComplete'[Solo] = isComplete[Solo]
             /\ completeCalls'[Solo] = completeCalls[Solo]]_vars

\* C36 witness: a control clicked twice below its threshold of three and
\* never hovered is not displaced and not the active one, and then, hovered
\* once, still has its two clicks and no dialog.
C36_Witness ==
    /\ threshold = 3
    /\ troll[Solo].clickCount = 2 /\ troll[Solo].rotation = 30
    /\ troll[Solo].dialogStage = 0 /\ ~isComplete[Solo]
    /\ troll[Solo].escapeCount = 1 /\ troll[Solo].hoverEscapeOffset.x # 0
    /\ activeButtonId = Solo

(* ------------------------- claims on progress -------------------------- *)
\* C37: no reachable non-complete state of the troll control is a dead end:
\* from every reachable state, once the user only clicks when no dialog is
\* shown and confirms when one is shown (weak fairness on click and confirm,
\* no cancel, no reset), the control eventually reaches isComplete = TRUE and
\* the completion callback eventually fires.
C37_InsistingUserCompletes ==
    <>[][StrategyClick \/ StrategyConfirm]_vars =>
        <>(isComplete[Solo] /\ completeCalls[Solo] >= 1)

\* C37 witness: a control that was hovered and whose dialog was cancelled
\* after two clicks has completed, and the callback has fired.
C37_Witness ==
    /\ isComplete[Solo] /\ completeCalls[Solo] = 1
    /\ gateBase[Solo] = 2 /\ troll[Solo].clickCount > 2
    /\ troll[Solo].escapeCount > 0

(* --------------------------- claims on the App ------------------------- *)
\* C38: end to end in the app: when the troll control of todo t completes,
\* completeTodo is called with t's id exactly once, t.completed becomes true,
\* t's control stops being rendered, and no other todo's completed flag, text
\* or position changes; a todo's completed flag becomes true only through its
\* own control's completed confirmation sequence.
C38_CompletionEndToEnd ==
    /\ [](\A c \in Controls : mounted[c] =>
              /\ listed(todos, c)
              /\ completeCalls[c] <= 1
              /\ todoOf(todos, c).completed = isComplete[c]
              /\ todoOf(todos, c).completed = (completeCalls[c] = 1)
              /\ isCompletedProp[c] = todoOf(todos, c).completed)
    /\ [][\A c \in Controls :
            /\ (mounted[c] /\ ~isComplete[c] /\ isComplete'[c]) =>
                  /\ completeCalls'[c] = completeCalls[c] + 1
                  /\ lastStoreOp' = "completeTodo"
                  /\ todos' = completeUpdater(todos, TodoIds[c])
                  /\ todoOf(todos', c).completed
                  /\ ~rendered(c)'
                  /\ Len(todos') = Len(todos)
                  /\ \A i \in 1..Len(todos) :
                        /\ todos'[i].id = todos[i].id
                        /\ todos'[i].text = todos[i].text
                        /\ todos[i].id # TodoIds[c] =>
                               todos'[i].completed = todos[i].completed
            /\ (/\ listed(todos, c) /\ listed(todos', c)
                /\ ~todoOf(todos, c).completed /\ todoOf(todos', c).completed) =>
                  /\ AppConfirm
                  /\ troll[c].dialogStage = Len(TROLL_MESSAGES)
                  /\ seqDone'[c]
                  /\ ~isComplete[c] /\ isComplete'[c]]_vars

\* C38 witness: the second todo has just been completed through its control,
\* which is no longer rendered; the first todo is not completed and its
\* control is the displaced one.
C38_Witness ==
    \E c \in Controls \ {Solo} :
        /\ Len(todos) = 2 /\ lastStoreOp = "completeTodo"
        /\ todoOf(todos, c).completed /\ completeCalls[c] = 1 /\ ~rendered(c)
        /\ ~todoOf(todos, Solo).completed /\ rendered(Solo)
        /\ activeButtonId = Solo /\ renderedOffset(Solo) # 0
        /\ troll[Solo].dialogStage = 2

\* C39: the provider's activeButtonId starts empty and, once some control
\* has been hovered, never becomes empty again for the lifetime of the list:
\* no operation of the app (row mouse-leave, completion, deletion of the
\* active todo) clears it, so it can name a control that is at offset 0,
\* completed or deleted, while still never naming more than one control.
C39_ActiveNeverCleared ==
    /\ (~provided => activeButtonId = NULL)
    /\ [](activeButtonId \in Controls \cup {NULL})
    /\ [](Cardinality({c \in Controls : renderedOffset(c) # 0}) <= 1)
    /\ [][(provided /\ provided') =>
            /\ activeButtonId # NULL => activeButtonId' # NULL
            /\ activeButtonId' # activeButtonId =>
                   AppHover /\ activeButtonId' = lastHovered']_vars

\* C39 witness: the todo of the active control was deleted while its sibling
\* stays in the list; the provider still names the deleted control.
C39_Witness ==
    /\ provided /\ activeButtonId = Solo
    /\ ~mounted[Solo] /\ ~listed(todos, Solo)
    /\ \E c \in Controls \ {Solo} : rendered(c) /\ troll[c].escapeCount > 0

\* C40: the provider is scoped to one rendered list: it is created with no
\* active control when a non-empty list mounts and destroyed when the list
\* unmounts, also when the list becomes empty, so a list that becomes
\* non-empty again starts with no active control; a hover changes the active
\* control of the list it happens in and of no other.
C40_ProviderPerList ==
    /\ [](provided = (Len(todos) > 0))
    /\ [](~provided => \A c \in Controls : ~mounted[c])
    /\ [][/\ (~provided /\ provided') =>
                /\ activeButtonId' = NULL
                /\ \A c \in Controls : renderedOffset(c)' = 0
          /\ (provided /\ ~provided') => activeButtonId' = NULL
          /\ AppHover =>
                /\ provided /\ provided'
                /\ mounted[activeButtonId'] /\ listed(todos, activeButtonId')]_vars

\* C40 witness: the only todo of a list was hovered and deleted; the list
\* that mounted with the next todo has no active control.
C40_Witness ==
    /\ provided /\ activeButtonId = NULL
    /\ lastHovered = Solo /\ ~listed(todos, Solo)
    /\ Len(todos) = 1 /\ uuids = 2
    /\ \E c \in Controls \ {Solo} : rendered(c)

====
